---------------------------- MODULE Spec2Model ----------------------------
(***************************************************************************)
(* Authentication core of the Social-Network backend: AuthenService and    *)
(* AuthenController (src/src/utils/user-profile.util.ts, lines 35-347).    *)
(*                                                                         *)
(* State: the credential store (UserAccount rows), the tokens that clients *)
(* hold (returned by login or delivered by mail), the clock, the response  *)
(* of the last request, and the registrations suspended at an await.       *)
(*                                                                         *)
(* Collaborators whose code is not in the source tree (UserAccountUtil,    *)
(* the UserAccount entity, MailService) and the libraries (bcrypt,         *)
(* JwtService) are modelled at the call sites from their contracts.        *)
(***************************************************************************)
EXTENDS Integers, Sequences, FiniteSets, TLC

VARIABLES
    accounts,   \* credential store: sequence of UserAccount rows, id = index
    held,       \* tokens in clients' hands (login payloads, mailed links)
    now,        \* clock, in token-lifetime units
    resp,       \* the last request: its arguments and the HTTP response
    pending,    \* per caller: createUser suspended between find and save
    created,    \* per username: number of 201 responses of register
    original    \* per row: the password it was registered with, Missing
                \* once resetPassword has replaced it

vars == <<accounts, held, now, resp, pending, created, original>>

---------------------------------------------------------------------------
(* Bounds and input domains *)

MaxTime == 2        \* the clock runs 0..MaxTime
MaxTokens == 1      \* tokens clients keep for later presentation
MaxAccounts == 3    \* rows the store can hold

MailerTime == 1     \* env.mailer.time, the reset/verification window
SessionTime == 2    \* JwtModule signOptions.expiresIn, the session window

Missing == ""       \* an absent or empty string (falsy), a null column

Usernames == {"alice", "bob"}
Passwords == {"Secret1", "Other2"}
Emails == {"alice@x.com"}
Procs == {1, 2}

UsernameInputs == Usernames \cup {Missing}
PasswordInputs == Passwords \cup {Missing}
EmailInputs == Emails \cup {Missing}

---------------------------------------------------------------------------
(* Password Hasher: bcrypt *)

\* Faulty variant of hash: the password is kept as it was given.
hashKeepsPlaintext(plain) == [alg |-> "raw", of |-> plain]

\* bcrypt.hash(password, 12): a digest that is not the plaintext.  The salt
\* is left out: compare never depends on it.
hash(plain) == [alg |-> "bcrypt", of |-> plain]

\* A string stored as it was given, which is no bcrypt digest.
raw(plain) == [alg |-> "raw", of |-> plain]

\* bcrypt.compare(password, stored): false for anything that is no digest.
compare(plain, stored) == stored.alg = "bcrypt" /\ stored.of = plain

---------------------------------------------------------------------------
(* Credential Store: UserAccountUtil *)

Ids(store) == 1..Len(store)

Min(S) == CHOOSE x \in S : \A y \in S : x <= y

\* findByUsername(username): the id of the first matching row, 0 for none.
findByUsername(store, username) ==
    LET hits == {i \in Ids(store) : store[i].username = username}
    IN  IF username = Missing \/ hits = {} THEN 0 ELSE Min(hits)

\* findByEmail(email): the id of the first matching row, 0 for none.
findByEmail(store, email) ==
    LET hits == {i \in Ids(store) : store[i].email = email}
    IN  IF email = Missing \/ hits = {} THEN 0 ELSE Min(hits)

\* create(username, hash): a new unverified row without email.
create(store, username, password) ==
    [id |-> Len(store) + 1, username |-> username, email |-> Missing,
     password |-> password, verifyEmail |-> FALSE, profile |-> Missing,
     created_at |-> "timestamp", updated_at |-> "timestamp"]

\* save(user): the store's uniqueness constraint on username rejects a
\* second row with a username that is already there.
saveAccepts(store, user) ==
    /\ Len(store) < MaxAccounts
    /\ \A i \in Ids(store) : store[i].username # user.username

\* updatePassword(user, value): persists the value it is given.
updatePassword(store, id, value) ==
    [store EXCEPT ![id].password = value]

\* updateVerifyEmail(user): sets the verified flag.
updateVerifyEmail(store, id) ==
    [store EXCEPT ![id].verifyEmail = TRUE]

---------------------------------------------------------------------------
(* Token Service: JwtService *)

\* jwtService.sign(payload, {expiresIn}): origin is a history field, which
\* verification never reads.
sign(claims, t, expiresIn, origin) ==
    [claims |-> claims, exp |-> t + expiresIn, sig |-> "ok", origin |-> origin]

\* jwtService.verify(token): throws on a bad signature or when the clock
\* has reached exp.
verifyToken(token, t) == token.sig = "ok" /\ t < token.exp

\* A token whose bytes were altered after signing.
Tamper(token) == [token EXCEPT !.sig = "bad"]

\* A token made without the server's secret.
Forged ==
    {[claims |-> [email |-> e], exp |-> MaxTime + MailerTime + 1,
      sig |-> "bad", origin |-> "forged"] : e \in Emails}

\* decoded.email: undefined when the payload has no such claim.
emailClaim(token) ==
    IF "email" \in DOMAIN token.claims THEN token.claims.email ELSE Missing

\* Tokens a caller can present.
Presentable == held \cup {Tamper(t) : t \in held} \cup Forged

Keep(tokens) ==
    IF Cardinality(held \cup tokens) <= MaxTokens THEN held \cup tokens ELSE held

---------------------------------------------------------------------------
(* Requests and responses *)

Dto(username, email, password, token) ==
    [username |-> username, email |-> email, password |-> password, token |-> token]

NoDto == Dto(Missing, Missing, Missing, {})

Response(op, dto, status, message, token, mails, attempts) ==
    [op |-> op, args |-> dto, status |-> status, message |-> message,
     token |-> token, mails |-> mails, attempts |-> attempts]

\* An exception that leaves the controller: Nest's default 500.
ServerError(op, args, attempts) ==
    Response(op, args, 500, "Internal server error", {}, <<>>, attempts)

---------------------------------------------------------------------------
(* AuthenService.createUser *)

\* Faulty variant of createUserCheck: the lookup of lines 47-49 is left out.
createUserCheckSkipsLookup(store, dto) ==
    IF dto.username = Missing \/ dto.password = Missing THEN 400 ELSE 0

\* Faulty variant of createUserCheck: the lookup comes before the field check.
createUserCheckLookupFirst(store, dto) ==
    IF dto.username # Missing /\ findByUsername(store, dto.username) # 0 THEN 409
    ELSE IF dto.username = Missing \/ dto.password = Missing THEN 400
    ELSE 0

\* Lines 44-49: 400, 409, or 0 to go on.
createUserCheck(store, dto) ==
    IF dto.username = Missing \/ dto.password = Missing THEN 400
    ELSE IF findByUsername(store, dto.username) # 0 THEN 409
    ELSE 0

\* Faulty variant of createUserSave: a rejected save is caught and ignored.
createUserSaveSwallows(store, dto) ==
    LET user == create(store, dto.username, hash(dto.password))
    IN  IF saveAccepts(store, user)
        THEN [threw |-> FALSE, ret |-> 0, store |-> Append(store, user)]
        ELSE [threw |-> FALSE, ret |-> 0, store |-> store]

\* Lines 51-54: hash, create, save.  A rejected save throws.
createUserSave(store, dto) ==
    LET user == create(store, dto.username, hash(dto.password))
    IN  IF saveAccepts(store, user)
        THEN [threw |-> FALSE, ret |-> 0, store |-> Append(store, user)]
        ELSE [threw |-> TRUE, ret |-> 0, store |-> store]

\* Faulty variant of createUser: a taken username has its password replaced.
createUserOverwrites(store, dto) ==
    IF dto.username = Missing \/ dto.password = Missing
    THEN [threw |-> FALSE, ret |-> 400, store |-> store]
    ELSE LET id == findByUsername(store, dto.username)
         IN  IF id # 0
             THEN [threw |-> FALSE, ret |-> 409,
                   store |-> updatePassword(store, id, hash(dto.password))]
             ELSE createUserSave(store, dto)

createUser(store, dto) ==
    LET status == createUserCheck(store, dto)
    IN  IF status # 0
        THEN [threw |-> FALSE, ret |-> status, store |-> store]
        ELSE createUserSave(store, dto)

\* AuthenController.register: the response for createUser's result.
registerResponse(dto, r) ==
    IF r.threw THEN ServerError("register", dto, 0)
    ELSE IF r.ret = 400
    THEN Response("register", dto, 400, "Username and password are required", {}, <<>>, 0)
    ELSE IF r.ret = 409
    THEN Response("register", dto, 409, "Username already exists", {}, <<>>, 0)
    ELSE Response("register", dto, 201, "User created successfully", {}, <<>>, 0)

Count(r, dto) ==
    IF r.status = 201
    THEN [created EXCEPT ![dto.username] = @ + 1]
    ELSE created

Remember(store, dto) ==
    IF Len(store) > Len(original) THEN Append(original, dto.password) ELSE original

\* POST /auth/register, run without interleaving.
Register ==
    \E u \in UsernameInputs, p \in PasswordInputs :
        LET dto == Dto(u, Missing, p, {})
            r == createUser(accounts, dto)
            out == registerResponse(dto, r)
        IN  /\ accounts' = r.store
            /\ resp' = out
            /\ created' = Count(out, dto)
            /\ original' = Remember(r.store, dto)
            /\ UNCHANGED <<held, now, pending>>

\* createUser up to its first await that can interleave: lines 44-49.  A
\* call that goes on is suspended with its arguments.
RegisterCheck(proc) ==
    \E u \in UsernameInputs, p \in PasswordInputs :
        LET dto == Dto(u, Missing, p, {})
            status == createUserCheck(accounts, dto)
        IN  /\ pending[proc] = NoDto
            /\ IF status # 0
               THEN /\ resp' = registerResponse(dto, [threw |-> FALSE, ret |-> status])
                    /\ UNCHANGED pending
               ELSE /\ pending' = [pending EXCEPT ![proc] = dto]
                    /\ UNCHANGED resp
            /\ UNCHANGED <<accounts, held, now, created, original>>

\* The rest of a suspended createUser, lines 51-54, and the response.
RegisterSave(proc) ==
    LET dto == pending[proc]
        r == createUserSave(accounts, dto)
        out == registerResponse(dto, r)
    IN  /\ dto # NoDto
        /\ accounts' = r.store
        /\ resp' = out
        /\ created' = Count(out, dto)
        /\ original' = Remember(r.store, dto)
        /\ pending' = [pending EXCEPT ![proc] = NoDto]
        /\ UNCHANGED <<held, now>>

---------------------------------------------------------------------------
(* AuthenService.validateUser *)

\* Lines 75-82: the row without password, profile, verifyEmail, created_at
\* and updated_at.
\* Faulty variant of Redact: verifyEmail is missing from the destructuring.
RedactKeepsVerified(user) ==
    [f \in DOMAIN user \ {"password", "profile", "created_at", "updated_at"}
        |-> user[f]]

Redact(user) ==
    [f \in DOMAIN user \ {"password", "profile", "verifyEmail", "created_at", "updated_at"}
        |-> user[f]]

\* Faulty variant of lookup: the verified flag of line 67 is not consulted.
lookupIgnoresVerified(store, dto) ==
    LET byName == IF dto.username # Missing
                  THEN findByUsername(store, dto.username) ELSE 0
    IN  IF byName # 0 THEN byName
        ELSE IF dto.email # Missing THEN findByEmail(store, dto.email)
        ELSE 0

\* Lines 60-72: the id of the row to check the password against, 0 for none.
lookup(store, dto) ==
    LET byName == IF dto.username # Missing
                  THEN findByUsername(store, dto.username) ELSE 0
        byEmail == IF byName = 0 /\ dto.email # Missing
                   THEN findByEmail(store, dto.email) ELSE 0
    IN  IF byName # 0 THEN byName
        ELSE IF byEmail # 0 /\ store[byEmail].verifyEmail THEN byEmail
        ELSE 0

\* The set holding the signed session token, or empty for null.
validateUser(store, dto, t) ==
    IF dto.username # Missing /\ dto.email # Missing THEN {}
    ELSE LET id == lookup(store, dto)
         IN  IF id = 0 THEN {}
             ELSE IF compare(dto.password, store[id].password)
             THEN {sign(Redact(store[id]), t, SessionTime, "session")}
             ELSE {}

\* The two responses of AuthenController.login
loginResponse(dto, token) ==
    IF token = {}
    THEN Response("login", dto, 400, "Wrong username/email or password", {}, <<>>, 0)
    ELSE Response("login", dto, 201, "Login successfully", token, <<>>, 0)

\* Faulty variant of login: an unknown account gets a response of its own.
loginRevealsUnknownAccount(store, dto, t) ==
    IF lookup(store, dto) = 0
    THEN Response("login", dto, 404, "Account not exist", {}, <<>>, 0)
    ELSE loginResponse(dto, validateUser(store, dto, t))

\* AuthenController.login, lines 246-250
login(store, dto, t) == loginResponse(dto, validateUser(store, dto, t))

\* POST /auth/login
Login ==
    \E u \in UsernameInputs, e \in EmailInputs, p \in PasswordInputs :
        LET dto == Dto(u, e, p, {})
            out == login(accounts, dto, now)
        IN  /\ resp' = out
            /\ held' = Keep(out.token)
            /\ UNCHANGED <<accounts, now, pending, created, original>>

---------------------------------------------------------------------------
(* Notification Dispatcher: MailService *)

Mail(to, subject, token) == [to |-> to, subject |-> subject, token |-> token]

\* sendMail(message): the messages delivered; a failed send throws.
sendMail(message, mailOk) ==
    [threw |-> ~mailOk, mails |-> IF mailOk THEN <<message>> ELSE <<>>, attempts |-> 1]

Tokens(mails) == {mails[i].token : i \in DOMAIN mails}

---------------------------------------------------------------------------
(* AuthenService.forgotPassword *)

\* Faulty variant of forgotPassword: an unverified account is treated as absent.
forgotPasswordNeedsVerified(store, email, t, mailOk) ==
    LET id == findByEmail(store, email)
    IN  IF id = 0 \/ ~store[id].verifyEmail
        THEN [threw |-> FALSE, ret |-> 400, mails |-> <<>>, attempts |-> 0]
        ELSE LET token == sign([email |-> email], t, MailerTime, "reset")
                 sent == sendMail(Mail(email, "Reset password", token), mailOk)
             IN  [threw |-> sent.threw, ret |-> 0, mails |-> sent.mails,
                  attempts |-> sent.attempts]

\* Faulty variant of forgotPassword: the expiresIn option of line 96 is left
\* out, so the token gets the window of the module's signOptions.
forgotPasswordDefaultWindow(store, email, t, mailOk) ==
    IF findByEmail(store, email) = 0
    THEN [threw |-> FALSE, ret |-> 400, mails |-> <<>>, attempts |-> 0]
    ELSE LET token == sign([email |-> email], t, SessionTime, "reset")
             sent == sendMail(Mail(email, "Reset password", token), mailOk)
         IN  [threw |-> sent.threw, ret |-> 0, mails |-> sent.mails,
              attempts |-> sent.attempts]

forgotPassword(store, email, t, mailOk) ==
    IF findByEmail(store, email) = 0
    THEN [threw |-> FALSE, ret |-> 400, mails |-> <<>>, attempts |-> 0]
    ELSE LET token == sign([email |-> email], t, MailerTime, "reset")
             sent == sendMail(Mail(email, "Reset password", token), mailOk)
         IN  [threw |-> sent.threw, ret |-> 0, mails |-> sent.mails,
              attempts |-> sent.attempts]

\* AuthenController.forgotPassword
forgotPasswordResponse(dto, r) ==
    IF r.threw THEN ServerError("forgotPassword", dto, r.attempts)
    ELSE IF r.ret = 400
    THEN Response("forgotPassword", dto, 400, "Account not exist", {}, <<>>, r.attempts)
    ELSE Response("forgotPassword", dto, 201, "Reset link sent", {}, r.mails, r.attempts)

\* POST /auth/forgot-password
ForgotPassword ==
    \E e \in EmailInputs, mailOk \in BOOLEAN :
        LET dto == Dto(Missing, e, Missing, {})
            out == forgotPasswordResponse(dto, forgotPassword(accounts, e, now, mailOk))
        IN  /\ resp' = out
            /\ held' = Keep(Tokens(out.mails))
            /\ UNCHANGED <<accounts, now, pending, created, original>>

---------------------------------------------------------------------------
(* AuthenService.resetPassword *)

\* Line 126: the value handed to updatePassword.
newPasswordValue(newPassword) == raw(newPassword)

\* Faulty variant of resetPassword: an expired token is told apart from a forged one.
resetPasswordTellsExpired(store, token, newPassword, t) ==
    IF token.sig # "ok" THEN [ret |-> 409, store |-> store]
    ELSE IF t >= token.exp THEN [ret |-> 400, store |-> store]
    ELSE LET id == findByEmail(store, emailClaim(token))
         IN  IF id = 0 THEN [ret |-> 400, store |-> store]
             ELSE [ret |-> 0,
                   store |-> updatePassword(store, id, newPasswordValue(newPassword))]

\* Faulty variant of resetPassword: a token is refused once the account's
\* password has been replaced through a reset.
resetPasswordSingleUse(store, token, newPassword, t) ==
    IF ~verifyToken(token, t) THEN [ret |-> 409, store |-> store]
    ELSE LET id == findByEmail(store, emailClaim(token))
         IN  IF id = 0 THEN [ret |-> 400, store |-> store]
             ELSE IF store[id].password.alg = "raw"
             THEN [ret |-> 409, store |-> store]
             ELSE [ret |-> 0,
                   store |-> updatePassword(store, id, newPasswordValue(newPassword))]

\* Lines 118-131: every throw inside the try block returns 409.
resetPassword(store, token, newPassword, t) ==
    IF ~verifyToken(token, t) THEN [ret |-> 409, store |-> store]
    ELSE LET id == findByEmail(store, emailClaim(token))
         IN  IF id = 0 THEN [ret |-> 400, store |-> store]
             ELSE [ret |-> 0,
                   store |-> updatePassword(store, id, newPasswordValue(newPassword))]

\* Lines 118-131 when a store call (findByEmail, line 122, or
\* updatePassword, line 126) rejects: the catch of line 129 takes the
\* error like a failed jwtService.verify and returns 409.
resetPasswordStoreDown(store, token, newPassword, t) ==
    IF ~verifyToken(token, t) THEN [ret |-> 409, store |-> store]
    ELSE LET caught == 409
         IN  [ret |-> caught, store |-> store]

\* AuthenController.resetPassword
resetPasswordResponse(dto, r) ==
    IF r.ret = 400
    THEN Response("resetPassword", dto, 400, "Wrong token", {}, <<>>, 0)
    ELSE IF r.ret = 409
    THEN Response("resetPassword", dto, 409, "Token invalid/expired", {}, <<>>, 0)
    ELSE Response("resetPassword", dto, 201, "New password set", {}, <<>>, 0)

\* POST /auth/reset-password
ResetPassword ==
    \E token \in Presentable, p \in Passwords :
        LET dto == Dto(Missing, Missing, p, {token})
            r == resetPassword(accounts, token, p, now)
        IN  /\ accounts' = r.store
            /\ resp' = resetPasswordResponse(dto, r)
            /\ original' = [i \in DOMAIN original |->
                              IF r.store[i].password = accounts[i].password
                              THEN original[i] ELSE Missing]
            /\ UNCHANGED <<held, now, pending, created>>

---------------------------------------------------------------------------
(* AuthenService.verifyEmail *)

\* Faulty variant of verifyEmail: the check of lines 139-140 is left out.
verifyEmailSkipsVerifiedCheck(store, email, t, mailOk) ==
    IF findByEmail(store, email) = 0
    THEN [threw |-> FALSE, ret |-> 400, mails |-> <<>>, attempts |-> 0]
    ELSE LET token == sign([email |-> email], t, MailerTime, "verify")
             sent == sendMail(Mail(email, "Verify email", token), mailOk)
         IN  [threw |-> sent.threw, ret |-> 0, mails |-> sent.mails,
              attempts |-> sent.attempts]

\* Faulty variant of verifyEmail: a failed send is caught and ignored.
verifyEmailSwallowsMailError(store, email, t, mailOk) ==
    LET id == findByEmail(store, email)
    IN  IF id = 0
        THEN [threw |-> FALSE, ret |-> 400, mails |-> <<>>, attempts |-> 0]
        ELSE IF store[id].verifyEmail
        THEN [threw |-> FALSE, ret |-> 409, mails |-> <<>>, attempts |-> 0]
        ELSE LET token == sign([email |-> email], t, MailerTime, "verify")
                 sent == sendMail(Mail(email, "Verify email", token), mailOk)
             IN  [threw |-> FALSE, ret |-> 0, mails |-> sent.mails,
                  attempts |-> sent.attempts]

verifyEmail(store, email, t, mailOk) ==
    LET id == findByEmail(store, email)
    IN  IF id = 0
        THEN [threw |-> FALSE, ret |-> 400, mails |-> <<>>, attempts |-> 0]
        ELSE IF store[id].verifyEmail
        THEN [threw |-> FALSE, ret |-> 409, mails |-> <<>>, attempts |-> 0]
        ELSE LET token == sign([email |-> email], t, MailerTime, "verify")
                 sent == sendMail(Mail(email, "Verify email", token), mailOk)
             IN  [threw |-> sent.threw, ret |-> 0, mails |-> sent.mails,
                  attempts |-> sent.attempts]

\* AuthenController.verifyEmail
verifyEmailResponse(dto, r) ==
    IF r.threw THEN ServerError("verifyEmail", dto, r.attempts)
    ELSE IF r.ret = 400
    THEN Response("verifyEmail", dto, 400, "Account not exist", {}, <<>>, r.attempts)
    ELSE IF r.ret = 409
    THEN Response("verifyEmail", dto, 409, "Email has been verified", {}, <<>>, r.attempts)
    ELSE Response("verifyEmail", dto, 201, "Verify link sent", {}, r.mails, r.attempts)

\* POST /auth/verify-email
VerifyEmail ==
    \E e \in EmailInputs, mailOk \in BOOLEAN :
        LET dto == Dto(Missing, e, Missing, {})
            out == verifyEmailResponse(dto, verifyEmail(accounts, e, now, mailOk))
        IN  /\ resp' = out
            /\ held' = Keep(Tokens(out.mails))
            /\ UNCHANGED <<accounts, now, pending, created, original>>

---------------------------------------------------------------------------
(* AuthenService.verify *)

\* Faulty variant of verify: the token is decoded without being verified.
verifyTrustsAnyToken(store, token, t) ==
    LET id == findByEmail(store, emailClaim(token))
    IN  IF id = 0 THEN [ret |-> 409, store |-> store]
        ELSE [ret |-> 0, store |-> updateVerifyEmail(store, id)]

\* Lines 165-178: every throw inside the try block returns 400.
verify(store, token, t) ==
    IF ~verifyToken(token, t) THEN [ret |-> 400, store |-> store]
    ELSE LET id == findByEmail(store, emailClaim(token))
         IN  IF id = 0 THEN [ret |-> 409, store |-> store]
             ELSE [ret |-> 0, store |-> updateVerifyEmail(store, id)]

\* Lines 165-178 when a store call (findByEmail, line 169, or
\* updateVerifyEmail, line 173) rejects: the catch of line 176 takes the
\* error like a failed jwtService.verify and returns 400.
verifyStoreDown(store, token, t) ==
    IF ~verifyToken(token, t) THEN [ret |-> 400, store |-> store]
    ELSE LET caught == 400
         IN  [ret |-> caught, store |-> store]

\* AuthenController.acceptVerifyEmail
acceptVerifyEmailResponse(dto, r) ==
    IF r.ret = 400
    THEN Response("verify", dto, 400, "Token invalid/expired", {}, <<>>, 0)
    ELSE IF r.ret = 409
    THEN Response("verify", dto, 409, "Wrong token", {}, <<>>, 0)
    ELSE Response("verify", dto, 201, "Verified", {}, <<>>, 0)

\* GET /auth/verify
AcceptVerifyEmail ==
    \E token \in Presentable :
        LET dto == Dto(Missing, Missing, Missing, {token})
            r == verify(accounts, token, now)
        IN  /\ accounts' = r.store
            /\ resp' = acceptVerifyEmailResponse(dto, r)
            /\ UNCHANGED <<held, now, pending, created, original>>

---------------------------------------------------------------------------
(* Environment *)

\* An account acquires its (unique) email outside the authentication core.
SetEmail ==
    \E id \in Ids(accounts), e \in Emails :
        /\ accounts[id].email = Missing
        /\ \A j \in Ids(accounts) : accounts[j].email # e
        /\ accounts' = [accounts EXCEPT ![id].email = e]
        /\ resp' = Response("setEmail", Dto(accounts[id].username, e, Missing, {}),
                            0, "", {}, <<>>, 0)
        /\ UNCHANGED <<held, now, pending, created, original>>

\* A client discards a token it holds.
Forget ==
    \E t \in held :
        /\ held' = held \ {t}
        /\ UNCHANGED <<accounts, now, resp, pending, created, original>>

Tick ==
    /\ now < MaxTime
    /\ now' = now + 1
    /\ UNCHANGED <<accounts, held, resp, pending, created, original>>

---------------------------------------------------------------------------

Init ==
    /\ accounts = <<>>
    /\ held = {}
    /\ now = 0
    /\ resp = Response("none", NoDto, 0, "", {}, <<>>, 0)
    /\ pending = [p \in Procs |-> NoDto]
    /\ created = [u \in UsernameInputs |-> 0]
    /\ original = <<>>

Next ==
    \/ Register
    \/ Login
    \/ ForgotPassword
    \/ ResetPassword
    \/ VerifyEmail
    \/ AcceptVerifyEmail
    \/ SetEmail
    \/ Forget
    \/ Tick

Spec == Init /\ [][Next]_vars

\* POST /auth/reset-password while the store rejects its calls.
ResetPasswordStoreDown ==
    \E token \in Presentable, p \in Passwords :
        LET dto == Dto(Missing, Missing, p, {token})
            r == resetPasswordStoreDown(accounts, token, p, now)
        IN  /\ accounts' = r.store
            /\ resp' = resetPasswordResponse(dto, r)
            /\ UNCHANGED <<held, now, pending, created, original>>

\* GET /auth/verify while the store rejects its calls.
AcceptVerifyEmailStoreDown ==
    \E token \in Presentable :
        LET dto == Dto(Missing, Missing, Missing, {token})
            r == verifyStoreDown(accounts, token, now)
        IN  /\ accounts' = r.store
            /\ resp' = acceptVerifyEmailResponse(dto, r)
            /\ UNCHANGED <<held, now, pending, created, original>>

\* The routes with a store that may fail under resetPassword and verify.
NextFail ==
    \/ Next
    \/ ResetPasswordStoreDown
    \/ AcceptVerifyEmailStoreDown

SpecFail == Init /\ [][NextFail]_vars

\* Concurrent callers of register, interleaved at createUser's awaits.
NextConc ==
    \E proc \in Procs :
        \/ RegisterCheck(proc)
        \/ RegisterSave(proc)

SpecConc == Init /\ [][NextConc]_vars

---------------------------------------------------------------------------
(* Vocabulary of the properties *)

\* The Password Hasher's output for a plaintext.
Digest(plain) == [alg |-> "bcrypt", of |-> plain]

IsDigest(value) == \E p \in Passwords : value = Digest(p)

\* The identity attributes of an account.
Identity(user) == [id |-> user.id, username |-> user.username, email |-> user.email]

\* What a caller sees of a response.
Outcome(r) == [status |-> r.status, message |-> r.message, token |-> r.token]

ByUsername(u, p) == Dto(u, Missing, p, {})
ByEmail(e, p) == Dto(Missing, e, p, {})

\* The outcome of a login that names no account of the store.
InvalidCredentials(dto) == Outcome(login(<<>>, dto, now))

\* A token that fails verification: bad signature, or expired.
BadSignature(token) == token.sig # "ok"
Expired(token) == now >= token.exp

---------------------------------------------------------------------------
(* Properties *)

\* C1: an account registered with (username, password) logs in with that
\* username (no email) and that password, whatever happened since to other
\* accounts, as long as no resetPassword has replaced its own password; the
\* session token's claims are the account's identity attributes.
C1_RegisterThenLogin ==
    \A i \in Ids(accounts) :
        original[i] # Missing =>
            LET out == login(accounts, ByUsername(accounts[i].username, original[i]), now)
            IN  /\ out.status = 201
                /\ out.token # {}
                /\ \A t \in out.token : t.claims = Identity(accounts[i])

\* A login by username succeeded for an account that kept its registered
\* password, after another account's password was reset.
C1_Witness ==
    /\ resp.op = "login" /\ resp.status = 201 /\ resp.args.email = Missing
    /\ \E i, j \in Ids(accounts) :
        /\ i # j
        /\ accounts[i].username = resp.args.username
        /\ original[i] = resp.args.password
        /\ original[j] = Missing

\* C2: under every interleaving of concurrent register calls, at most one
\* registration per username is answered 201, and the store never holds two
\* accounts with one username.
C2_OneAccountPerUsername ==
    \A u \in Usernames :
        /\ created[u] <= 1
        /\ Cardinality({i \in Ids(accounts) : accounts[i].username = u}) <= 1

\* Two calls passed the lookup for one username; one was answered 201 and
\* the other's save was rejected.
C2_Witness ==
    /\ resp.op = "register" /\ resp.status = 500
    /\ created[resp.args.username] = 1

\* C3: register with a username that has an account and any (non-empty)
\* password is answered 409 "Username already exists" and leaves the store
\* as it was: no second account, the existing one unchanged.
C3_UsernameTaken ==
    \A u \in Usernames, p \in Passwords :
        (\E i \in Ids(accounts) : accounts[i].username = u) =>
            LET r == createUser(accounts, ByUsername(u, p))
                out == registerResponse(ByUsername(u, p), r)
            IN  /\ out.status = 409
                /\ out.message = "Username already exists"
                /\ r.store = accounts

\* A register with a taken username and another password was answered 409.
C3_Witness ==
    /\ resp.op = "register" /\ resp.status = 409
    /\ \E i \in Ids(accounts) :
        /\ accounts[i].username = resp.args.username
        /\ accounts[i].password # Digest(resp.args.password)
        /\ original[i] # Missing

\* C4: a session token returned by login is never accepted by
\* resetPassword.  (The other direction, a reset token authenticating a
\* session, has no code in the source tree: the session guard is not part
\* of it.)
C4_SessionTokenNeverResets ==
    (resp.op = "resetPassword" /\ \E t \in resp.args.token : t.origin = "session")
        => resp.status # 201

\* C5: every stored password is a hasher output; and right after a
\* successful resetPassword(token, newPassword) the account named by the
\* token's email claim holds the hash of newPassword and logs in with it.
C5_ResetStoresHash ==
    /\ \A i \in Ids(accounts) : IsDigest(accounts[i].password)
    /\ (resp.op = "resetPassword" /\ resp.status = 201) =>
            \A t \in resp.args.token :
                LET id == findByEmail(accounts, emailClaim(t))
                IN  /\ id # 0
                    /\ accounts[id].password = Digest(resp.args.password)
                    /\ login(accounts, ByUsername(accounts[id].username,
                                                  resp.args.password), now).status = 201

\* C6: resetPassword with a token that fails verification changes nothing
\* and is answered 409 "Token invalid/expired", the same for a bad signature
\* and for an expired token.
C6_RejectedTokenUniform ==
    \A token \in Presentable, p \in Passwords :
        (BadSignature(token) \/ Expired(token)) =>
            LET dto == Dto(Missing, Missing, p, {token})
                r == resetPassword(accounts, token, p, now)
                out == resetPasswordResponse(dto, r)
            IN  /\ r.store = accounts
                /\ out.status = 409
                /\ out.message = "Token invalid/expired"

\* A genuine token of an existing account was presented after it expired
\* and was answered 409.
C6_Witness ==
    /\ resp.op = "resetPassword" /\ resp.status = 409
    /\ \E t \in resp.args.token :
        /\ ~BadSignature(t) /\ Expired(t)
        /\ findByEmail(accounts, emailClaim(t)) # 0

\* C7: for an account with an email and the password that matches its
\* stored hash: while unverified, login by email is answered as invalid
\* credentials and login by username succeeds; once verified, login by
\* email succeeds.
C7_EmailLoginNeedsVerified ==
    \A i \in Ids(accounts), p \in Passwords :
        (accounts[i].email # Missing /\ accounts[i].password = Digest(p)) =>
            LET byEmail == login(accounts, ByEmail(accounts[i].email, p), now)
                byName == login(accounts, ByUsername(accounts[i].username, p), now)
            IN  IF accounts[i].verifyEmail
                THEN byEmail.status = 201
                ELSE /\ Outcome(byEmail) = InvalidCredentials(ByEmail(accounts[i].email, p))
                     /\ byEmail.status = 400
                     /\ byName.status = 201

\* A login by email with the right password was refused for an unverified
\* account.
C7_Witness ==
    /\ resp.op = "login" /\ resp.status = 400 /\ resp.args.username = Missing
    /\ \E i \in Ids(accounts) :
        /\ accounts[i].email = resp.args.email
        /\ accounts[i].password = Digest(resp.args.password)
        /\ ~accounts[i].verifyEmail

\* C8: a login that names no account and a login that names an account
\* with another password get the same outcome (status, message, payload):
\* the one of a login against a store without any account.
C8_NoAccountEnumeration ==
    \A u \in UsernameInputs, e \in EmailInputs, p \in PasswordInputs :
        LET dto == Dto(u, e, p, {})
            named == {i \in Ids(accounts) :
                        \/ u # Missing /\ accounts[i].username = u
                        \/ e # Missing /\ accounts[i].email = e}
            unknown == named = {}
            wrong == named # {} /\ \A i \in named : accounts[i].password # Digest(p)
        IN  (unknown \/ wrong) =>
                /\ Outcome(login(accounts, dto, now)) = InvalidCredentials(dto)
                /\ login(accounts, dto, now).status = 400

\* A login by username with a wrong password was refused.
C8_Witness ==
    /\ resp.op = "login" /\ resp.status = 400 /\ resp.args.email = Missing
    /\ resp.args.password # Missing
    /\ \E i \in Ids(accounts) :
        /\ accounts[i].username = resp.args.username
        /\ IsDigest(accounts[i].password)
        /\ accounts[i].password # Digest(resp.args.password)

\* C9: a login with both a username and an email, both naming one account
\* and with its password, fails with an outcome that differs from the one
\* for invalid credentials.
C9_AmbiguousIdentifierDistinct ==
    \A i \in Ids(accounts), p \in Passwords :
        (accounts[i].email # Missing /\ accounts[i].password = Digest(p)) =>
            LET both == Dto(accounts[i].username, accounts[i].email, p, {})
                out == login(accounts, both, now)
            IN  /\ out.status # 201
                /\ Outcome(out) # InvalidCredentials(ByUsername(accounts[i].username, p))

\* C10: for an unverified account with email E and a working dispatcher,
\* verifyEmail(E) sends one message to E with a token T; verify(T) succeeds
\* and sets the flag; verify(T) again, at any time before T expires, succeeds
\* and leaves the flag set; and for a verified account verifyEmail(E) is
\* answered 409 and nothing is sent.
C10_VerificationFlow ==
    \A i \in Ids(accounts) :
        LET E == accounts[i].email
            dto == ByEmail(E, Missing)
            refused(store) ==
                \A mailOk \in BOOLEAN :
                    LET r == verifyEmail(store, E, now, mailOk)
                        out == verifyEmailResponse(dto, r)
                    IN  /\ out.status = 409
                        /\ out.message = "Email has been verified"
                        /\ out.mails = <<>> /\ r.attempts = 0
        IN  E # Missing =>
            IF accounts[i].verifyEmail THEN refused(accounts)
            ELSE LET req == verifyEmail(accounts, E, now, TRUE)
                     out == verifyEmailResponse(dto, req)
                 IN  /\ out.status = 201
                     /\ req.attempts = 1
                     /\ Len(out.mails) = 1
                     /\ out.mails[1].to = E
                     /\ LET T == out.mails[1].token
                            tdto == Dto(Missing, Missing, Missing, {T})
                            first == verify(accounts, T, now)
                        IN  /\ acceptVerifyEmailResponse(tdto, first).status = 201
                            /\ first.store[i].verifyEmail
                            /\ \A t \in now..(T.exp - 1) :
                                LET second == verify(first.store, T, t)
                                IN  /\ acceptVerifyEmailResponse(tdto, second).status = 201
                                    /\ second.store[i].verifyEmail
                            /\ refused(first.store)

\* After a request and a confirmation with its token, which is still held
\* and not expired, a further request was answered 409.
C10_Witness ==
    /\ resp.op = "verifyEmail" /\ resp.status = 409
    /\ \E t \in held :
        /\ t.origin = "verify" /\ ~Expired(t)
        /\ t.claims.email = resp.args.email

\* C11: the verified flag is false on a new account, never goes from true
\* to false, and goes from false to true only in a verify request answered
\* 201 whose token has a good signature, is not expired and carries the
\* account's email.
C11_VerifiedMonotonic ==
    [][/\ \A i \in Ids(accounts) :
            /\ i \in Ids(accounts')
            /\ accounts[i].verifyEmail => accounts'[i].verifyEmail
            /\ (~accounts[i].verifyEmail /\ accounts'[i].verifyEmail) =>
                    /\ resp'.op = "verify" /\ resp'.status = 201
                    /\ \E t \in resp'.args.token :
                        /\ ~BadSignature(t) /\ ~Expired(t)
                        /\ accounts[i].email # Missing
                        /\ emailClaim(t) = accounts[i].email
       /\ \A i \in Ids(accounts') \ Ids(accounts) : ~accounts'[i].verifyEmail
      ]_vars

\* A verify request with a valid token has just turned the flag of the
\* account named by the token from false to true.
C11_Witness ==
    /\ resp.op = "verify" /\ resp.status = 201
    /\ \E t \in resp.args.token : \E i \in Ids(accounts) :
        /\ ~BadSignature(t) /\ emailClaim(t) = accounts[i].email
        /\ accounts[i].verifyEmail

\* C12: a token mailed by forgotPassword is never accepted by verify, and a
\* token mailed by verifyEmail is never accepted by resetPassword.
C12_TokenKindsNotInterchangeable ==
    /\ (resp.op = "verify" /\ \E t \in resp.args.token : t.origin = "reset")
            => resp.status # 201
    /\ (resp.op = "resetPassword" /\ \E t \in resp.args.token : t.origin = "verify")
            => resp.status # 201

\* A request with this token at time t changes nothing: resetPassword
\* answers 409, verify answers 400 and both leave the store as it is.
RejectedAt(token, t) ==
    /\ \A p \in Passwords :
            /\ resetPassword(accounts, token, p, t).ret = 409
            /\ resetPassword(accounts, token, p, t).store = accounts
    /\ verify(accounts, token, t).ret = 400
    /\ verify(accounts, token, t).store = accounts

\* C13: expiry is decided when the token is presented. A token mailed now
\* by forgotPassword (by verifyEmail) for an account is accepted by
\* resetPassword (by verify) at every time before now + MailerTime and is
\* rejected, leaving the store unchanged, at every time from then on; a
\* held token that has expired is rejected at the present and every later
\* time.
C13_ExpiryAtVerificationTime ==
    /\ \A e \in Emails :
            LET reset == Tokens(forgotPassword(accounts, e, now, TRUE).mails)
                confirm == Tokens(verifyEmail(accounts, e, now, TRUE).mails)
            IN  (\E i \in Ids(accounts) : accounts[i].email = e) =>
                \A t \in now..(now + MailerTime + 1) :
                    /\ reset # {}
                    /\ \A token \in reset, p \in Passwords :
                        IF t < now + MailerTime
                        THEN LET r == resetPassword(accounts, token, p, t)
                             IN  \E i \in Ids(accounts) :
                                    /\ accounts[i].email = e
                                    /\ r.ret = 0 /\ r.store[i].password.of = p
                        ELSE RejectedAt(token, t)
                    /\ \A token \in confirm :
                        IF t < now + MailerTime
                        THEN LET v == verify(accounts, token, t)
                             IN  \E i \in Ids(accounts) :
                                    /\ accounts[i].email = e
                                    /\ v.ret = 0 /\ v.store[i].verifyEmail
                        ELSE RejectedAt(token, t)
    /\ \A token \in held :
            (~BadSignature(token) /\ Expired(token)) =>
                \A t \in now..(MaxTime + 1) : RejectedAt(token, t)

\* A token mailed by verifyEmail was presented to verify after its window
\* had passed and was rejected.
C13_Witness ==
    /\ resp.op = "verify" /\ resp.status = 400
    /\ \E t \in resp.args.token :
        t.origin = "verify" /\ ~BadSignature(t) /\ Expired(t)

\* C14: a resetPassword or verify request whose token verified is never
\* answered with the response of a rejected token; a store failure after
\* the token verified is reported as something else.
C14_StoreFailureNotTokenRejected ==
    (/\ resp.op \in {"resetPassword", "verify"}
     /\ \E t \in resp.args.token : ~BadSignature(t) /\ ~Expired(t))
        => resp.message # "Token invalid/expired"

\* Some account of the store has this email.
AccountHas(e) == e # Missing /\ \E i \in Ids(accounts) : accounts[i].email = e

\* C15: forgotPassword(email) is answered 400 'Account not exist' exactly
\* when no account has the email.  When an account has it, verified or not,
\* one send is attempted and, the dispatcher working, the answer is 201
\* with exactly one message, addressed to the email, whose token carries
\* the email as its only claim and expires MailerTime from now.  No step
\* that answers a forgotPassword request changes the store.
C15_ForgotPassword ==
    /\ [](\A e \in EmailInputs, mailOk \in BOOLEAN :
            LET dto == Dto(Missing, e, Missing, {})
                out == forgotPasswordResponse(dto,
                            forgotPassword(accounts, e, now, mailOk))
            IN  IF ~AccountHas(e)
                THEN /\ out.status = 400 /\ out.message = "Account not exist"
                     /\ out.mails = <<>> /\ out.attempts = 0
                ELSE /\ out.message # "Account not exist"
                     /\ out.attempts = 1
                     /\ mailOk =>
                            /\ out.status = 201
                            /\ Len(out.mails) = 1
                            /\ out.mails[1].to = e
                            /\ out.mails[1].token.claims = [email |-> e]
                            /\ out.mails[1].token.exp = now + MailerTime
                            /\ ~BadSignature(out.mails[1].token))
    /\ [][resp'.op = "forgotPassword" => accounts' = accounts]_vars

\* forgotPassword has just mailed a reset token to the email of an account
\* that is not verified.
C15_Witness ==
    /\ resp.op = "forgotPassword" /\ resp.status = 201
    /\ Len(resp.mails) = 1
    /\ \E i \in Ids(accounts) :
        /\ accounts[i].email = resp.args.email
        /\ ~accounts[i].verifyEmail

\* C16: the stored password of an account changes only in a resetPassword
\* request answered 201 whose token verifies and carries that account's
\* email; register (a failed one for the same username included), login,
\* forgotPassword, verifyEmail and verify leave every stored password as
\* it is.
C16_PasswordChangedOnlyByReset ==
    [][\A i \in Ids(accounts) :
            /\ i \in Ids(accounts')
            /\ accounts'[i].password # accounts[i].password =>
                    /\ resp'.op = "resetPassword" /\ resp'.status = 201
                    /\ \E t \in resp'.args.token :
                        /\ ~BadSignature(t) /\ ~Expired(t)
                        /\ accounts[i].email # Missing
                        /\ emailClaim(t) = accounts[i].email
      ]_vars

\* A register for a taken username was refused and the account still has
\* the password it was registered with.
C16_Witness ==
    /\ resp.op = "register" /\ resp.status = 409
    /\ \E i \in Ids(accounts) :
        /\ accounts[i].username = resp.args.username
        /\ resp.args.password # original[i]
        /\ accounts[i].password = Digest(original[i])

\* The fields of an account that a session token must not carry.
Secrets == {"password", "verifyEmail", "created_at", "updated_at"}

\* C17: the token of every successful login, by username or by email,
\* carries none of the account's password hash, verified flag, creation
\* timestamp and update timestamp; so does every session token held.
C17_SessionTokenCarriesNoSecrets ==
    /\ \A u \in UsernameInputs, e \in EmailInputs, p \in PasswordInputs :
            \A t \in login(accounts, Dto(u, e, p, {}), now).token :
                DOMAIN t.claims \cap Secrets = {}
    /\ \A t \in held : t.origin = "session" => DOMAIN t.claims \cap Secrets = {}
    /\ \A t \in resp.token : DOMAIN t.claims \cap Secrets = {}

\* A login by email has just returned a session token.
C17_Witness ==
    /\ resp.op = "login" /\ resp.status = 201
    /\ resp.args.username = Missing /\ resp.args.email # Missing
    /\ resp.token # {}

\* C18: a register whose username or password is absent or empty is
\* answered 400 'Username and password are required' whatever the store
\* holds (the lookup's result plays no part) and stores nothing; no
\* register response, successful or not, carries a token or sends a mail.
C18_RegisterMissingField ==
    /\ \A u \in UsernameInputs, p \in PasswordInputs :
            LET dto == Dto(u, Missing, p, {})
                r == createUser(accounts, dto)
                out == registerResponse(dto, r)
            IN  /\ (u = Missing \/ p = Missing) =>
                        /\ out.status = 400
                        /\ out.message = "Username and password are required"
                        /\ r.store = accounts
                        /\ out = registerResponse(dto, createUser(<<>>, dto))
                /\ out.token = {} /\ out.mails = <<>>
    /\ resp.op = "register" => resp.token = {} /\ resp.mails = <<>>

\* A register naming an existing account without a password was answered
\* 400.
C18_Witness ==
    /\ resp.op = "register" /\ resp.status = 400
    /\ resp.args.password = Missing
    /\ \E i \in Ids(accounts) : accounts[i].username = resp.args.username

\* The caller is told of a failure that is none of the handler's own
\* answers, after one attempt to send and with nothing delivered.
DeliveryError(out) ==
    /\ out.status = 500 /\ out.message = "Internal server error"
    /\ out.attempts = 1 /\ out.mails = <<>> /\ out.token = {}

\* C19: when the dispatcher fails, forgotPassword for an account's email
\* and verifyEmail for an unverified account's email are answered with an
\* error, never 201, after exactly one send attempt; no step that answers
\* such a request changes the store.
C19_DeliveryFailurePropagates ==
    /\ [](\A e \in Emails : \A i \in Ids(accounts) :
            accounts[i].email = e =>
                LET dto == Dto(Missing, e, Missing, {})
                IN  /\ DeliveryError(forgotPasswordResponse(dto,
                            forgotPassword(accounts, e, now, FALSE)))
                    /\ ~accounts[i].verifyEmail =>
                            DeliveryError(verifyEmailResponse(dto,
                                verifyEmail(accounts, e, now, FALSE))))
    /\ [][(resp'.op \in {"forgotPassword", "verifyEmail"} /\ resp'.status = 500)
            => accounts' = accounts]_vars

\* A verifyEmail request has just failed on the dispatcher.
C19_Witness ==
    /\ resp.op = "verifyEmail" /\ resp.status = 500 /\ resp.attempts = 1
    /\ \E i \in Ids(accounts) :
        accounts[i].email = resp.args.email /\ ~accounts[i].verifyEmail

\* C20: a reset token is not consumed.  For a held token that verifies,
\* whenever resetPassword(token, p1) succeeds, resetPassword(token, p2) on
\* the resulting store succeeds at every time before the token expires and
\* leaves the account's stored password derived from p2, and so does a
\* further resetPassword(token, p1) after it.
C20_ResetTokenReusable ==
    \A token \in held : (~BadSignature(token) /\ ~Expired(token)) =>
        \A p1 \in Passwords, p2 \in Passwords :
            LET first == resetPassword(accounts, token, p1, now)
            IN  first.ret = 0 =>
                \A t \in now..(token.exp - 1) :
                    LET second == resetPassword(first.store, token, p2, t)
                        third == resetPassword(second.store, token, p1, t)
                    IN  \E i \in Ids(accounts) :
                            /\ accounts[i].email = emailClaim(token)
                            /\ first.store[i].password.of = p1
                            /\ second.ret = 0
                            /\ second.store[i].password.of = p2
                            /\ third.ret = 0
                            /\ third.store[i].password.of = p1

\* resetPassword has just succeeded with a token mailed by forgotPassword
\* that is still held and unexpired.
C20_Witness ==
    /\ resp.op = "resetPassword" /\ resp.status = 201
    /\ \E t \in resp.args.token \cap held :
        /\ t.origin = "reset" /\ ~Expired(t)
        /\ \E i \in Ids(accounts) :
            /\ accounts[i].email = emailClaim(t)
            /\ original[i] = Missing

=============================================================================
